---------------------------- MODULE Spec2Model ----------------------------
(***************************************************************************)
(* A model of the Corporal Theremin backend (src/backend).                 *)
(*                                                                         *)
(* Python floats are modelled as exact rationals [n, d] (d > 0, reduced):  *)
(* every comparison and every arithmetic step of the source is carried out *)
(* exactly.  Python's None is the empty tuple <<>>, which is falsy in      *)
(* Python just as None is; a hand position is the pair <<x, y>>.           *)
(*                                                                         *)
(* The specifications share the variables:                                 *)
(*   SpecMap    map_hand_to_parameters as a pure function of its inputs;   *)
(*   SpecTrack  HandTracker.process_frame, frame after frame;              *)
(*   SpecAudio  the AudioEngine: parameters, waveform kind, phase, the     *)
(*              audio callback and the buffers it returns;                 *)
(*   SpecRace   the audio callback and update_parameters, interleaved      *)
(*              statement by statement;                                    *)
(*   Spec       the CorporalTheremin life cycle: setup, start, stop,       *)
(*              cleanup and the processing threads (SpecFair adds the      *)
(*              scheduler's fairness towards the processing threads);      *)
(*   SpecCalls  start() and stop() called by concurrent request threads;   *)
(*   SpecConfig update_config on a theremin that is set up;                *)
(*   SpecApi    the /api/wave_type route and set_wave_type.                *)
(***************************************************************************)
EXTENDS Integers, Sequences, FiniteSets, TLC

VARIABLES
    config,            \* CorporalTheremin.config
    ui_callbacks,      \* on_parameters_changed / on_frame_processed are set
    mainpc,            \* where the owner of the theremin is
    setup_error,       \* the exception setup() propagated, "" when none
    camera,            \* cv2.VideoCapture: "none", "open", "unopened", "released"
    hand_tracker,      \* HandTracker.hands: "none", "open", "closed"
    audio_engine,      \* CorporalTheremin.audio_engine: "none" or "built"
    audio,             \* the PyAudio handle: "none", "open", "terminated"
    stream,            \* the PyAudio stream: "none", "active", "stopped", "closed"
    is_running,        \* CorporalTheremin.is_running
    is_playing,        \* AudioEngine.is_playing
    frequency,         \* AudioEngine.frequency
    volume,            \* AudioEngine.volume
    wave_type,         \* AudioEngine.wave_type
    current_phase,     \* AudioEngine.current_phase (seconds)
    left_hand_pos,     \* HandTracker.left_hand_pos
    right_hand_pos,    \* HandTracker.right_hand_pos
    processing_thread, \* CorporalTheremin.processing_thread: a thread or <<>>
    pc,                \* each processing thread's position in processing_loop
    mapped,            \* the pair the latest map_hand_to_parameters call returned
    last_params,       \* ThereminAPI.last_params
    current_frame,     \* ThereminAPI.current_frame
    out,               \* the buffer the latest audio_callback returned
    gen,               \* the latest generate_wave call
    prev,              \* the generate_wave call before the latest
    last_switch,       \* the valid kind of the latest set_wave_type call
    status,            \* the status the latest audio_callback returned
    frame,             \* the hands in the frame process_frame was last given
    tracker_config,    \* HandTracker.config
    engine_config,     \* AudioEngine.config
    cb,                \* the audio_callback invocation in progress, or <<>>
    upd,               \* the update_parameters call in progress, or <<>>
    written,           \* which update_parameters call wrote frequency, volume
    caller,            \* each HTTP request thread's call and position in it
    reply              \* the latest /api/wave_type request and its reply

vars == <<config, ui_callbacks, mainpc, setup_error, camera, hand_tracker,
          audio_engine, audio, stream, is_running, is_playing, frequency,
          volume, wave_type, current_phase, left_hand_pos, right_hand_pos,
          processing_thread, pc, mapped, last_params, current_frame,
          out, gen, prev, last_switch, status, frame, tracker_config,
          engine_config, cb, upd, written, caller, reply>>

-----------------------------------------------------------------------------
(* Exact rational arithmetic standing for Python's float arithmetic.       *)

None == <<>>

Abs(i) == IF i < 0 THEN -i ELSE i

RECURSIVE GCD(_, _)
GCD(a, b) == IF b = 0 THEN a ELSE GCD(b, a % b)

Rat(n, d) ==
    LET g == GCD(Abs(n), d)
    IN  [n |-> n \div g, d |-> d \div g]

R(i) == [n |-> i, d |-> 1]

RAdd(a, b) ==
    LET g == GCD(a.d, b.d)
        l == (a.d \div g) * b.d
    IN  Rat(a.n * (l \div a.d) + b.n * (l \div b.d), l)

RNeg(a) == [n |-> -a.n, d |-> a.d]

RSub(a, b) == RAdd(a, RNeg(b))

RMul(a, b) ==
    LET g1 == GCD(Abs(a.n), b.d)
        g2 == GCD(Abs(b.n), a.d)
    IN  Rat((a.n \div g1) * (b.n \div g2), (a.d \div g2) * (b.d \div g1))

\* a / b for b # 0
RDiv(a, b) ==
    IF b.n > 0 THEN RMul(a, [n |-> b.d, d |-> b.n])
               ELSE RMul(a, [n |-> -b.d, d |-> -b.n])

RLe(a, b) == a.n * b.d <= b.n * a.d

RLt(a, b) == a.n * b.d < b.n * a.d

RMin(a, b) == IF RLe(a, b) THEN a ELSE b

RMax(a, b) == IF RLe(a, b) THEN b ELSE a

RAbs(a) == [n |-> Abs(a.n), d |-> a.d]

\* math.floor / np.floor
RFloor(a) == a.n \div a.d

\* Python's a % b for b > 0: the result has the sign of b
RMod(a, b) == RSub(a, RMul(b, R(RFloor(RDiv(a, b)))))

\* Python's int(): truncation towards zero
PyInt(a) == IF a.n >= 0 THEN a.n \div a.d ELSE -((-a.n) \div a.d)

\* the fractional part of a, in [0, 1)
Frac(a) == RSub(a, R(RFloor(a)))

-----------------------------------------------------------------------------
(* ThereminConfig and the coordinate-to-parameter mapping.                 *)

DEFAULT_FREQUENCY == 440

DEFAULT_VOLUME == 0

HandControls == {"volume", "frequency"}

\* a ThereminConfig; the fields the backend never reads are left out
ThereminConfig(w, h, sr, fpb, fr, vr, wt, lc, rc) ==
    [frame_width |-> w, frame_height |-> h, sample_rate |-> sr,
     frames_per_buffer |-> fpb, frequency_range |-> fr, volume_range |-> vr,
     wave_type |-> wt, left_hand_controls |-> lc, right_hand_controls |-> rc]

\* a variant in which a lower hand is louder
map_volume_rising(cfg, hand) ==
    LET normalized_y == RDiv(R(hand[2]), R(cfg.frame_height))
        vol_min == cfg.volume_range[1]
        vol_max == cfg.volume_range[2]
        v == RAdd(vol_min, RMul(RSub(vol_max, vol_min), normalized_y))
    IN  RMax(vol_min, RMin(vol_max, v))

\* volume = vol_max - (vol_max - vol_min) * normalized_y, clamped
map_volume(cfg, hand) ==
    LET normalized_y == RDiv(R(hand[2]), R(cfg.frame_height))
        vol_min == cfg.volume_range[1]
        vol_max == cfg.volume_range[2]
        v == RSub(vol_max, RMul(RSub(vol_max, vol_min), normalized_y))
    IN  RMax(vol_min, RMin(vol_max, v))

\* frequency = freq_min + (freq_max - freq_min) * normalized_y, not clamped
map_frequency(cfg, hand) ==
    LET normalized_y == RDiv(R(hand[2]), R(cfg.frame_height))
        freq_min == cfg.frequency_range[1]
        freq_max == cfg.frequency_range[2]
    IN  RAdd(freq_min, RMul(RSub(freq_max, freq_min), normalized_y))

\* a variant that silences to the lower end of the volume range
silence_volume_floor(cfg) == cfg.volume_range[1]

\* the volume written when neither hand is detected
silence_volume(cfg) == R(DEFAULT_VOLUME)

\* a variant whose defaults are the lower ends of the configured ranges
map_hand_to_parameters_range_defaults(cfg, left_hand, right_hand) ==
    LET f0 == cfg.frequency_range[1]
        v0 == cfg.volume_range[1]
        v1 == IF left_hand # None /\ cfg.left_hand_controls = "volume"
              THEN map_volume(cfg, left_hand) ELSE v0
        f1 == IF left_hand # None /\ cfg.left_hand_controls = "frequency"
              THEN map_frequency(cfg, left_hand) ELSE f0
        f2 == IF right_hand # None /\ cfg.right_hand_controls = "frequency"
              THEN map_frequency(cfg, right_hand) ELSE f1
        v2 == IF right_hand # None /\ cfg.right_hand_controls = "volume"
              THEN map_volume(cfg, right_hand) ELSE v1
        v3 == IF left_hand = None /\ right_hand = None
              THEN silence_volume(cfg) ELSE v2
    IN  <<f2, v3>>

\* a variant that handles the right hand first, so that the left hand's
\* value is the one that stays
map_hand_to_parameters_left_last(cfg, left_hand, right_hand) ==
    LET f0 == R(DEFAULT_FREQUENCY)
        v0 == R(DEFAULT_VOLUME)
        f1 == IF right_hand # None /\ cfg.right_hand_controls = "frequency"
              THEN map_frequency(cfg, right_hand) ELSE f0
        v1 == IF right_hand # None /\ cfg.right_hand_controls = "volume"
              THEN map_volume(cfg, right_hand) ELSE v0
        v2 == IF left_hand # None /\ cfg.left_hand_controls = "volume"
              THEN map_volume(cfg, left_hand) ELSE v1
        f2 == IF left_hand # None /\ cfg.left_hand_controls = "frequency"
              THEN map_frequency(cfg, left_hand) ELSE f1
        v3 == IF left_hand = None /\ right_hand = None
              THEN silence_volume(cfg) ELSE v2
    IN  <<f2, v3>>

map_hand_to_parameters(cfg, left_hand, right_hand) ==
    LET f0 == R(DEFAULT_FREQUENCY)
        v0 == R(DEFAULT_VOLUME)
        \* the left hand's if / elif
        v1 == IF left_hand # None /\ cfg.left_hand_controls = "volume"
              THEN map_volume(cfg, left_hand) ELSE v0
        f1 == IF left_hand # None /\ cfg.left_hand_controls # "volume"
                 /\ cfg.left_hand_controls = "frequency"
              THEN map_frequency(cfg, left_hand) ELSE f0
        \* the right hand's if / elif
        f2 == IF right_hand # None /\ cfg.right_hand_controls = "frequency"
              THEN map_frequency(cfg, right_hand) ELSE f1
        v2 == IF right_hand # None /\ cfg.right_hand_controls # "frequency"
                 /\ cfg.right_hand_controls = "volume"
              THEN map_volume(cfg, right_hand) ELSE v1
        \* no hand detected: silence
        v3 == IF left_hand = None /\ right_hand = None
              THEN silence_volume(cfg) ELSE v2
    IN  <<f2, v3>>

-----------------------------------------------------------------------------
(* AudioEngine: the waveforms, generate_wave and audio_callback.           *)

VALID_WAVE_TYPES == {"sine", "square", "sawtooth", "triangle"}

\* np.clip(wave, -0.9, 0.9)
CLIP_LIMIT == Rat(9, 10)

\* the volume under which audio_callback returns silence
SILENCE_THRESHOLD == Rat(1, 100)

\* np.sin(2 * pi * x), x in cycles.  The sine is transcendental; the model
\* takes Bhaskara's rational approximation 16p(1-p) / (5 - 4p(1-p)) of
\* sin(pi * p) on each half cycle.  It is exact wherever the sine of a
\* rational angle is rational (0, 1/12, 1/4, 5/12, 1/2 cycle, ...), lies in
\* [-1, 1], is continuous and has the sine's sign, zeros and extrema.
sine_wave(x) ==
    LET c == Frac(x)
        half == Rat(1, 2)
        p == IF RLt(c, half) THEN RMul(R(2), c)
                             ELSE RSub(RMul(R(2), c), R(1))
        q == RMul(p, RSub(R(1), p))
        b == RDiv(RMul(R(16), q), RSub(R(5), RMul(R(4), q)))
    IN  IF RLt(c, half) THEN b ELSE RNeg(b)

\* np.sign(np.sin(2 * pi * x))
square_wave(x) ==
    LET s == sine_wave(x)
    IN  IF s.n > 0 THEN R(1) ELSE IF s.n < 0 THEN R(-1) ELSE R(0)

\* 2 * (x - np.floor(0.5 + x))
sawtooth_wave(x) ==
    RMul(R(2), RSub(x, R(RFloor(RAdd(Rat(1, 2), x)))))

\* 2 * np.abs(2 * (x - np.floor(x + 0.5))) - 1
triangle_wave(x) ==
    RSub(RMul(R(2),
              RAbs(RMul(R(2), RSub(x, R(RFloor(RAdd(x, Rat(1, 2)))))))),
         R(1))

\* the branch of generate_wave's if / elif / else that wt selects
wave_branch(wt) ==
    IF wt = "sine" THEN "sine"
    ELSE IF wt = "square" THEN "square"
    ELSE IF wt = "sawtooth" THEN "sawtooth"
    ELSE IF wt = "triangle" THEN "triangle"
    ELSE "sine"

wave_at(wt, x) ==
    LET b == wave_branch(wt)
    IN  IF b = "sine" THEN sine_wave(x)
        ELSE IF b = "square" THEN square_wave(x)
        ELSE IF b = "sawtooth" THEN sawtooth_wave(x)
        ELSE triangle_wave(x)

\* a variant without np.clip
scale_unclipped(w, vol) == RMul(w, vol)

\* wave = np.clip(wave * volume, -0.9, 0.9)
scale_and_clip(w, vol) ==
    RMax(RNeg(CLIP_LIMIT), RMin(CLIP_LIMIT, RMul(w, vol)))

\* a variant that never wraps the phase
advance_phase_unwrapped(cfg, freq, phase, num_samples) ==
    RAdd(phase, Rat(num_samples, cfg.sample_rate))

\* current_phase += num_samples / sample_rate
\* current_phase %= 1.0 / frequency if frequency > 0 else 1.0
advance_phase(cfg, freq, phase, num_samples) ==
    LET p == RAdd(phase, Rat(num_samples, cfg.sample_rate))
        period == IF freq.n > 0 THEN RDiv(R(1), freq) ELSE R(1)
    IN  RMod(p, period)

\* generate_wave(num_samples): the samples returned and the phase left
generate_wave(cfg, freq, vol, wt, phase, num_samples) ==
    LET t_global(i) == RAdd(Rat(i - 1, cfg.sample_rate), phase)
    IN  [samples |-> [i \in 1..num_samples |->
                        scale_and_clip(wave_at(wt, RMul(freq, t_global(i))),
                                       vol)],
         phase |-> advance_phase(cfg, freq, phase, num_samples)]

\* np.zeros(frame_count)
zeros(frame_count) == [i \in 1..frame_count |-> R(0)]

\* a variant that ignores the volume
callback_silent_when_stopped == ~is_playing

\* whether audio_callback takes the silence branch
callback_silent == ~is_playing \/ RLt(volume, SILENCE_THRESHOLD)

\* what is recorded of a generate_wave call: the branch taken, the
\* parameters read, the phase in cycles of its first sample and the phase
\* reached at its end, its first and last samples, and the kind the latest
\* valid set_wave_type call before it asked for
gen_record(cfg, freq, vol, wt, phase, num_samples, w) ==
    [kind |-> wave_branch(wt), frequency |-> freq, volume |-> vol,
     start |-> Frac(RMul(freq, phase)),
     end |-> Frac(RMul(freq, RAdd(phase, Rat(num_samples, cfg.sample_rate)))),
     first |-> w.samples[1], last |-> w.samples[num_samples],
     requested |-> last_switch]

\* a variant that smooths: each parameter moves a tenth of the way from its
\* previous value to the new one
update_parameters_smoothed(f, v) ==
    /\ frequency' = RAdd(frequency, RMul(Rat(1, 10), RSub(f, frequency)))
    /\ volume' = RAdd(volume, RMul(Rat(1, 10), RSub(v, volume)))

\* AudioEngine.update_parameters
update_parameters(f, v) ==
    /\ frequency' = f
    /\ volume' = v

\* a variant that drops the request
set_wave_type_ignored(k) == wave_type' = wave_type

\* a variant that stores the kind without validating it
set_wave_type_unvalidated(k) == wave_type' = k

\* AudioEngine.set_wave_type
set_wave_type(k) ==
    wave_type' = IF k \in VALID_WAVE_TYPES THEN k ELSE wave_type

\* the kind a set_wave_type(k) call asks for: k if valid, else no change
switch_request(k) ==
    last_switch' = IF k \in VALID_WAVE_TYPES THEN <<k>> ELSE last_switch

\* AudioEngine.audio_callback, invoked by PortAudio while the stream runs
audio_callback(frame_count) ==
    /\ IF callback_silent
       THEN /\ out' = zeros(frame_count)
            /\ UNCHANGED <<current_phase, gen, prev>>
       ELSE LET w == generate_wave(engine_config, frequency, volume,
                                   wave_type, current_phase, frame_count)
            IN  /\ out' = w.samples
                /\ current_phase' = w.phase
                /\ gen' = <<gen_record(engine_config, frequency, volume,
                                       wave_type, current_phase,
                                       frame_count, w)>>
                /\ prev' = gen
    \* return (data.tobytes(), pyaudio.paContinue)
    /\ status' = "paContinue"

-----------------------------------------------------------------------------
(* The resources and flags, as one record s, and the methods that acquire  *)
(* and release them.  s.error is the exception a method raised, "" if none.*)

Res ==
    [camera |-> camera, hand_tracker |-> hand_tracker,
     audio_engine |-> audio_engine, audio |-> audio, stream |-> stream,
     is_running |-> is_running, is_playing |-> is_playing,
     error |-> setup_error]

SetRes(s) ==
    /\ camera' = s.camera
    /\ hand_tracker' = s.hand_tracker
    /\ audio_engine' = s.audio_engine
    /\ audio' = s.audio
    /\ stream' = s.stream
    /\ is_running' = s.is_running
    /\ is_playing' = s.is_playing
    /\ setup_error' = s.error

\* AudioEngine.start
engine_start(s) ==
    IF s.stream # "none" /\ ~s.is_playing
    THEN [s EXCEPT !.stream = "active", !.is_playing = TRUE]
    ELSE s

\* AudioEngine.stop
engine_stop(s) ==
    IF s.stream # "none" /\ s.is_playing
    THEN [s EXCEPT !.stream = "stopped", !.is_playing = FALSE]
    ELSE s

\* a variant that stops the stream and leaves it and the handle open
engine_cleanup_stop_only(s) == engine_stop(s)

\* AudioEngine.cleanup
engine_cleanup(s) ==
    LET s1 == engine_stop(s)
        s2 == IF s1.stream # "none" THEN [s1 EXCEPT !.stream = "closed"]
                                    ELSE s1
    IN  [s2 EXCEPT !.audio = "terminated"]

\* HandTracker.cleanup
tracker_cleanup(s) == [s EXCEPT !.hand_tracker = "closed"]

\* CorporalTheremin.stop up to its join: with no audio engine,
\* self.audio_engine.stop() raises AttributeError on None
theremin_stop(s) ==
    LET s1 == [s EXCEPT !.is_running = FALSE]
    IN  IF s1.audio_engine = "none"
        THEN [s1 EXCEPT !.error = "AttributeError"]
        ELSE engine_stop(s1)

\* CorporalTheremin.cleanup after its call of stop, which may have raised
cleanup_release(s) ==
    IF s.error # "" THEN s
    ELSE LET s1 == IF s.audio_engine # "none" THEN engine_cleanup(s) ELSE s
             s2 == IF s1.hand_tracker # "none" THEN tracker_cleanup(s1)
                                               ELSE s1
         IN  IF s2.camera = "open" THEN [s2 EXCEPT !.camera = "released"]
                                   ELSE s2

\* the except branch of CorporalTheremin.setup: cleanup(), then raise
setup_abort(s) ==
    LET c == cleanup_release(theremin_stop(s))
    IN  IF c.error # "" THEN c ELSE [c EXCEPT !.error = "InitError"]

\* CorporalTheremin.setup.  camera_ok: the capture device opened;
\* fail_at: the component whose construction raises, "" for none
theremin_setup(s, camera_ok, fail_at) ==
    LET s1 == [s EXCEPT !.camera = IF camera_ok THEN "open" ELSE "unopened"]
        s2 == [s1 EXCEPT !.hand_tracker = "open"]
        s3 == [s2 EXCEPT !.audio = "open"]
        s4 == [s3 EXCEPT !.stream = "active", !.is_playing = FALSE,
                         !.audio_engine = "built"]
    IN  IF fail_at = "hand_tracker" THEN setup_abort(s1)
        ELSE IF fail_at = "pyaudio" THEN setup_abort(s2)
        ELSE IF fail_at = "stream" THEN setup_abort(s3)
        ELSE s4

-----------------------------------------------------------------------------
(* HandTracker.process_frame.                                              *)

\* the position of a detected hand: the wrist landmark in pixels
wrist_position(cfg, hand) ==
    <<PyInt(RMul(hand.x, R(cfg.frame_width))),
      PyInt(RMul(hand.y, R(cfg.frame_height)))>>

\* the loop over the detected hands, from positions pos = <<left, right>>
RECURSIVE place_hands(_, _, _)
place_hands(cfg, hands, pos) ==
    IF hands = <<>> THEN pos
    ELSE LET h == Head(hands)
             p == wrist_position(cfg, h)
         IN  place_hands(cfg, Tail(hands),
                         IF h.label = "Left" THEN <<p, pos[2]>>
                                             ELSE <<pos[1], p>>)

\* a variant that does not clear the positions first
process_frame_keeping(cfg, hands) ==
    place_hands(cfg, hands, <<left_hand_pos, right_hand_pos>>)

\* process_frame: both positions are cleared, then set from the detection
process_frame(cfg, hands) == place_hands(cfg, hands, <<None, None>>)

-----------------------------------------------------------------------------
(* Variable groups, and the positions of a processing thread:             *)
(*   "none"      the thread was never created                              *)
(*   "check"     at the loop condition, while self.is_running              *)
(*   "read"      about to call self.camera.read()                          *)
(*   "continue"  at the continue of a failed read, next the loop condition *)
(*   "process"   a frame was read; the rest of the iteration follows       *)
(*   "exited"    the loop condition was false, processing_loop returned    *)
(*   "broke"     an exception was caught and the loop left by break        *)

res_vars == <<camera, hand_tracker, audio_engine, audio, stream, is_running,
              is_playing, setup_error>>

engine_vars == <<frequency, volume, wave_type, current_phase>>

tracker_vars == <<left_hand_pos, right_hand_pos>>

thread_vars == <<processing_thread, pc>>

api_vars == <<mapped, last_params, current_frame>>

buffer_vars == <<out, gen, prev, last_switch, status>>

conf_vars == <<tracker_config, engine_config>>

race_vars == <<cb, upd, written>>

ext_vars == <<frame, conf_vars, race_vars, caller, reply>>

MaxThreads == 2

Threads == 1..MaxThreads

AtLoopCondition == {"check", "continue"}

Alive == {"check", "continue", "read", "process"}

Ended == {"none", "exited", "broke"}

-----------------------------------------------------------------------------
(* SpecAudio: the audio engine of a theremin that was set up.              *)

\* the values update_parameters is called with
FrequencyInputs == {R(440), R(880)}

VolumeInputs == {R(0), Rat(1, 200), Rat(1, 2), R(1)}

WaveTypeInputs == VALID_WAVE_TYPES \cup {"noise"}

AudioConfigs ==
    {ThereminConfig(640, 480, 5280, 3, <<R(440), R(880)>>, <<R(0), R(1)>>,
                    "sine", "volume", "frequency")}

\* AudioEngine.__init__, before setup_audio
engine_init(cfg) ==
    [frequency |-> R(DEFAULT_FREQUENCY), volume |-> R(DEFAULT_VOLUME),
     wave_type |-> cfg.wave_type, current_phase |-> R(0)]

InitAudio ==
    /\ config \in AudioConfigs
    /\ ui_callbacks = FALSE
    /\ mainpc = "idle"
    /\ setup_error = ""
    /\ camera = "open"
    /\ hand_tracker = "open"
    /\ audio_engine = "built"
    /\ audio = "open"
    /\ stream = "active"
    /\ is_running = FALSE
    /\ is_playing = FALSE
    /\ frequency = engine_init(config).frequency
    /\ volume = engine_init(config).volume
    /\ wave_type = engine_init(config).wave_type
    /\ current_phase = engine_init(config).current_phase
    /\ left_hand_pos = None
    /\ right_hand_pos = None
    /\ processing_thread = None
    /\ pc = [t \in Threads |-> "none"]
    /\ mapped = None
    /\ last_params = None
    /\ current_frame = None
    /\ out = None
    /\ gen = None
    /\ prev = None
    /\ last_switch = None
    /\ status = None
    /\ frame = None
    /\ tracker_config = config
    /\ engine_config = config
    /\ cb = None
    /\ upd = None
    /\ written = None
    /\ caller = None
    /\ reply = None

AudioEngineStart ==
    /\ ~is_playing
    /\ SetRes(engine_start(Res))
    /\ UNCHANGED <<config, ui_callbacks, ext_vars, mainpc, engine_vars,
                   tracker_vars, thread_vars, api_vars, buffer_vars>>

AudioEngineStop ==
    /\ is_playing
    /\ SetRes(engine_stop(Res))
    /\ UNCHANGED <<config, ui_callbacks, ext_vars, mainpc, engine_vars,
                   tracker_vars, thread_vars, api_vars, buffer_vars>>

UpdateParameters(f, v) ==
    /\ update_parameters(f, v)
    /\ UNCHANGED <<config, ui_callbacks, ext_vars, mainpc, res_vars,
                   wave_type, current_phase, tracker_vars, thread_vars,
                   api_vars, buffer_vars>>

SetWaveType(k) ==
    /\ audio_engine = "built"
    /\ set_wave_type(k)
    /\ switch_request(k)
    /\ UNCHANGED <<config, ui_callbacks, ext_vars, mainpc, res_vars,
                   frequency, volume, current_phase, tracker_vars,
                   thread_vars, api_vars, out, gen, prev, status>>

AudioCallback ==
    /\ stream = "active"
    /\ audio_callback(engine_config.frames_per_buffer)
    /\ UNCHANGED <<config, ui_callbacks, ext_vars, mainpc, res_vars,
                   frequency, volume, wave_type, tracker_vars, thread_vars,
                   api_vars, last_switch>>

NextAudio ==
    \/ AudioEngineStart
    \/ AudioEngineStop
    \/ \E f \in FrequencyInputs, v \in VolumeInputs : UpdateParameters(f, v)
    \/ \E k \in WaveTypeInputs : SetWaveType(k)
    \/ AudioCallback

SpecAudio == InitAudio /\ [][NextAudio]_vars

-----------------------------------------------------------------------------
(* Spec: the life cycle of a CorporalTheremin and its processing threads.  *)

\* the configurations a theremin is constructed with: the defaults with
\* each assignment of the hands, and narrower ranges
DefaultConfig ==
    ThereminConfig(640, 480, 44100, 256, <<R(200), R(1000)>>, <<R(0), R(1)>>,
                   "sine", "volume", "frequency")

\* the default configuration, and one with narrower ranges and the hands
\* swapped
Configs ==
    {DefaultConfig,
     ThereminConfig(640, 480, 44100, 256, <<R(500), R(1000)>>,
                    <<Rat(1, 5), R(1)>>, "sine", "frequency", "volume")}

\* what the hand-landmark library reports for a frame: at most two hands
\* (max_num_hands = 2), each with a label and a normalized wrist landmark
WristYs == {Rat(1, 7), R(1)}

Hands == [label : {"Left", "Right"}, x : {Rat(1, 2)}, y : WristYs]

Detections ==
    {<<>>} \cup {<<h>> : h \in Hands}
           \cup {<<h1, h2>> : h1 \in Hands, h2 \in Hands}

\* CorporalTheremin.__init__ up to its call of setup
Init ==
    /\ config \in Configs
    /\ ui_callbacks \in BOOLEAN
    /\ mainpc = "new"
    /\ setup_error = ""
    /\ camera = "none"
    /\ hand_tracker = "none"
    /\ audio_engine = "none"
    /\ audio = "none"
    /\ stream = "none"
    /\ is_running = FALSE
    /\ is_playing = FALSE
    /\ frequency = None
    /\ volume = None
    /\ wave_type = ""
    /\ current_phase = None
    /\ left_hand_pos = None
    /\ right_hand_pos = None
    /\ processing_thread = None
    /\ pc = [t \in Threads |-> "none"]
    /\ mapped = None
    /\ last_params = None
    /\ current_frame = None
    /\ out = None
    /\ gen = None
    /\ prev = None
    /\ last_switch = None
    /\ status = None
    /\ frame = None
    /\ tracker_config = None
    /\ engine_config = None
    /\ cb = None
    /\ upd = None
    /\ written = None
    /\ caller = None
    /\ reply = None

\* setup(), called by the constructor
Setup(camera_ok, fail_at) ==
    /\ mainpc = "new"
    /\ LET s == theremin_setup(Res, camera_ok, fail_at)
       IN  /\ SetRes(s)
           /\ mainpc' = IF s.error = "" THEN "idle" ELSE "failed"
           /\ IF s.error = ""
              THEN /\ frequency' = engine_init(config).frequency
                   /\ volume' = engine_init(config).volume
                   /\ wave_type' = engine_init(config).wave_type
                   /\ current_phase' = engine_init(config).current_phase
              ELSE UNCHANGED engine_vars
           \* HandTracker(self.config), AudioEngine(self.config)
           /\ tracker_config' = IF s.hand_tracker = "open" THEN config
                                                           ELSE None
           /\ engine_config' = IF s.error = "" THEN config ELSE None
    /\ UNCHANGED <<config, ui_callbacks, frame, race_vars, caller, reply,
                   tracker_vars, thread_vars, api_vars, buffer_vars>>

\* CorporalTheremin.start up to the creation of the thread
theremin_start(s) == engine_start([s EXCEPT !.is_running = TRUE])

\* the slot of the thread start() creates
NewThread ==
    CHOOSE t \in Threads :
        /\ pc[t] \in Ended
        /\ \A u \in Threads : pc[u] \in Ended => t <= u

\* start(): a no-op when is_running is set
Start ==
    /\ mainpc = "idle"
    /\ ~is_running
    /\ \E t \in Threads : pc[t] \in Ended
    /\ SetRes(theremin_start(Res))
    /\ processing_thread' = <<NewThread>>
    /\ pc' = [pc EXCEPT ![NewThread] = "check"]
    /\ UNCHANGED <<config, ui_callbacks, ext_vars, mainpc, engine_vars,
                   tracker_vars, api_vars, buffer_vars>>

\* stop() up to its join
StopBegin ==
    /\ mainpc = "idle"
    /\ SetRes(theremin_stop(Res))
    /\ mainpc' = "stop_join"
    /\ UNCHANGED <<config, ui_callbacks, ext_vars, engine_vars, tracker_vars,
                   thread_vars, api_vars, buffer_vars>>

\* whether join(timeout=2.0) can return: there is no thread, it has ended,
\* or the timeout expires (at any time, as far as the model goes)
join_returns(timed_out) ==
    IF processing_thread = None THEN TRUE
    ELSE IF pc[processing_thread[1]] \in Ended THEN TRUE
    ELSE timed_out

\* stop() returns
StopReturn(timed_out) ==
    /\ mainpc = "stop_join"
    /\ join_returns(timed_out)
    /\ mainpc' = "idle"
    /\ UNCHANGED <<config, ui_callbacks, ext_vars, res_vars, engine_vars,
                   tracker_vars, thread_vars, api_vars, buffer_vars>>

\* cleanup() up to the join of its call of stop()
CleanupBegin ==
    /\ mainpc = "idle"
    /\ SetRes(theremin_stop(Res))
    /\ mainpc' = "cleanup_join"
    /\ UNCHANGED <<config, ui_callbacks, ext_vars, engine_vars, tracker_vars,
                   thread_vars, api_vars, buffer_vars>>

\* cleanup() after stop() returned
CleanupReturn(timed_out) ==
    /\ mainpc = "cleanup_join"
    /\ join_returns(timed_out)
    /\ SetRes(cleanup_release(Res))
    /\ mainpc' = "finished"
    /\ UNCHANGED <<config, ui_callbacks, ext_vars, engine_vars, tracker_vars,
                   thread_vars, api_vars, buffer_vars>>

\* a variant whose loop condition is while True
LoopCheckWhileTrue(t) ==
    /\ pc[t] \in AtLoopCondition
    /\ pc' = [pc EXCEPT ![t] = "read"]
    /\ UNCHANGED <<config, ui_callbacks, ext_vars, mainpc, res_vars,
                   engine_vars, tracker_vars, processing_thread, api_vars,
                   buffer_vars>>

\* processing_loop: while self.is_running
LoopCheck(t) ==
    /\ pc[t] \in AtLoopCondition
    /\ pc' = [pc EXCEPT ![t] = IF is_running THEN "read" ELSE "exited"]
    /\ UNCHANGED <<config, ui_callbacks, ext_vars, mainpc, res_vars,
                   engine_vars, tracker_vars, processing_thread, api_vars,
                   buffer_vars>>

\* a variant that forgets the hands when no frame arrives
frame_skipped_forgetting(t) ==
    /\ pc' = [pc EXCEPT ![t] = "continue"]
    /\ left_hand_pos' = None
    /\ right_hand_pos' = None
    /\ UNCHANGED <<engine_vars, api_vars>>

\* if not ret: log a warning, continue
frame_skipped(t) ==
    /\ pc' = [pc EXCEPT ![t] = "continue"]
    /\ UNCHANGED <<engine_vars, tracker_vars, api_vars>>

\* ret, frame = self.camera.read(), ok being ret; a capture that is not
\* open returns ret = False
ReadFrame(t, ok) ==
    /\ pc[t] = "read"
    /\ ok => camera = "open"
    /\ IF ok
       THEN /\ pc' = [pc EXCEPT ![t] = "process"]
            /\ UNCHANGED <<engine_vars, tracker_vars, api_vars>>
       ELSE frame_skipped(t)
    /\ UNCHANGED <<config, ui_callbacks, ext_vars, mainpc, res_vars,
                   processing_thread, buffer_vars>>

\* the dictionary passed to on_parameters_changed
params_of(cfg, m, left_hand, right_hand) ==
    [frequency |-> m[1], volume |-> m[2],
     left_hand_detected |-> left_hand # None,
     right_hand_detected |-> right_hand # None,
     left_hand_controls |-> cfg.left_hand_controls,
     right_hand_controls |-> cfg.right_hand_controls]

\* the UI callbacks of main.py's ThereminAPI, if they are set
ui_notify(cfg, m, pos) ==
    IF ui_callbacks
    THEN /\ last_params' = <<params_of(cfg, m, pos[1], pos[2])>>
         /\ current_frame' = <<pos>>
    ELSE UNCHANGED <<last_params, current_frame>>

\* the rest of an iteration: the frame is processed, the positions are
\* mapped, the audio parameters updated, the callbacks called, then sleep
ProcessFrame(t, hands) ==
    /\ pc[t] = "process"
    /\ hand_tracker = "open"
    /\ \E pos \in {process_frame(tracker_config, hands)} :
       \E m \in {map_hand_to_parameters(config, pos[1], pos[2])} :
           /\ left_hand_pos' = pos[1]
           /\ right_hand_pos' = pos[2]
           /\ mapped' = m
           /\ update_parameters(m[1], m[2])
           /\ ui_notify(config, m, pos)
    /\ pc' = [pc EXCEPT ![t] = "check"]
    /\ UNCHANGED <<config, ui_callbacks, ext_vars, mainpc, res_vars,
                   wave_type, current_phase, processing_thread, buffer_vars>>

\* an exception in the iteration (a closed hand tracker raises; an open one
\* may): it is logged and the loop breaks
ProcessRaises(t) ==
    /\ pc[t] = "process"
    /\ pc' = [pc EXCEPT ![t] = "broke"]
    /\ UNCHANGED <<config, ui_callbacks, ext_vars, mainpc, res_vars,
                   engine_vars, tracker_vars, processing_thread, api_vars,
                   buffer_vars>>

SetupFailures == {"", "hand_tracker", "pyaudio", "stream"}

Next ==
    \/ \E camera_ok \in BOOLEAN, fail_at \in SetupFailures :
           Setup(camera_ok, fail_at)
    \/ Start
    \/ StopBegin
    \/ \E timed_out \in BOOLEAN : StopReturn(timed_out)
    \/ CleanupBegin
    \/ \E timed_out \in BOOLEAN : CleanupReturn(timed_out)
    \/ \E t \in Threads : LoopCheck(t)
    \/ \E t \in Threads, ok \in BOOLEAN : ReadFrame(t, ok)
    \/ \E t \in Threads, hands \in Detections : ProcessFrame(t, hands)
    \/ \E t \in Threads : ProcessRaises(t)

Spec == Init /\ [][Next]_vars

\* SpecFair: the default configuration with the UI callbacks set, frames
\* that show no hand or a left hand, and a scheduler that runs every
\* processing thread that can take a step (the threads are operating-system
\* threads, and camera.read() and the calls of an iteration return).
InitFair ==
    /\ Init
    /\ config = DefaultConfig
    /\ ui_callbacks

FairDetections ==
    {<<>>, <<[label |-> "Left", x |-> Rat(1, 2), y |-> Rat(1, 7)]>>}

FairThreadStep(t) ==
    \/ LoopCheck(t)
    \/ \E ok \in BOOLEAN : ReadFrame(t, ok)
    \/ \E hands \in FairDetections : ProcessFrame(t, hands)
    \/ ProcessRaises(t)

NextFair ==
    \/ \E camera_ok \in BOOLEAN, fail_at \in SetupFailures :
           Setup(camera_ok, fail_at)
    \/ Start
    \/ StopBegin
    \/ \E timed_out \in BOOLEAN : StopReturn(timed_out)
    \/ CleanupBegin
    \/ \E timed_out \in BOOLEAN : CleanupReturn(timed_out)
    \/ \E t \in Threads : FairThreadStep(t)

SpecFair ==
    /\ InitFair
    /\ [][NextFair]_vars
    /\ \A t \in Threads : WF_vars(FairThreadStep(t))

-----------------------------------------------------------------------------
(* SpecMap: map_hand_to_parameters applied to every input within bounds.   *)

MaxFrameHeight == 3

FrequencyRanges ==
    {<<R(200), R(1000)>>, <<R(500), R(1000)>>, <<R(440), R(440)>>}

VolumeRanges == {<<R(0), R(1)>>, <<Rat(1, 5), Rat(4, 5)>>}

MapConfigs ==
    {ThereminConfig(640, h, 44100, 256, fr, vr, "sine", lc, rc) :
        h \in 1..MaxFrameHeight, fr \in FrequencyRanges, vr \in VolumeRanges,
        lc \in HandControls, rc \in HandControls}

\* an absent hand, or a hand at any row of the frame, 0 <= y <= frame_height
MapPositions(cfg) == {None} \cup {<<0, y>> : y \in 0..cfg.frame_height}

InitMap ==
    /\ config \in MapConfigs
    /\ ui_callbacks = FALSE
    /\ mainpc = "idle"
    /\ setup_error = ""
    /\ camera = "open"
    /\ hand_tracker = "open"
    /\ audio_engine = "built"
    /\ audio = "open"
    /\ stream = "active"
    /\ is_running = FALSE
    /\ is_playing = FALSE
    /\ frequency = engine_init(config).frequency
    /\ volume = engine_init(config).volume
    /\ wave_type = engine_init(config).wave_type
    /\ current_phase = engine_init(config).current_phase
    /\ left_hand_pos \in MapPositions(config)
    /\ right_hand_pos \in MapPositions(config)
    /\ processing_thread = None
    /\ pc = [t \in Threads |-> "none"]
    /\ mapped = None
    /\ last_params = None
    /\ current_frame = None
    /\ out = None
    /\ gen = None
    /\ prev = None
    /\ last_switch = None
    /\ status = None
    /\ frame = None
    /\ tracker_config = config
    /\ engine_config = config
    /\ cb = None
    /\ upd = None
    /\ written = None
    /\ caller = None
    /\ reply = None

\* frequency, volume = self.map_hand_to_parameters(left_hand, right_hand)
CallMap ==
    /\ mapped = None
    /\ mapped' = map_hand_to_parameters(config, left_hand_pos, right_hand_pos)
    /\ UNCHANGED <<config, ui_callbacks, ext_vars, mainpc, res_vars,
                   engine_vars, tracker_vars, thread_vars, last_params,
                   current_frame, buffer_vars>>

NextMap == CallMap

SpecMap == InitMap /\ [][NextMap]_vars

-----------------------------------------------------------------------------
(* SpecTrack: HandTracker.process_frame applied to frame after frame.      *)

TrackHands ==
    [label : {"Left", "Right"}, x : {R(0), Rat(1, 2)},
     y : {R(0), Rat(1, 7), R(1)}]

TrackDetections ==
    {<<>>} \cup {<<h>> : h \in TrackHands}
           \cup {<<h1, h2>> : h1 \in TrackHands, h2 \in TrackHands}

\* a theremin that was set up; no frame has been processed yet
InitTrack ==
    /\ config \in Configs
    /\ ui_callbacks = FALSE
    /\ mainpc = "idle"
    /\ setup_error = ""
    /\ camera = "open"
    /\ hand_tracker = "open"
    /\ audio_engine = "built"
    /\ audio = "open"
    /\ stream = "active"
    /\ is_running = FALSE
    /\ is_playing = FALSE
    /\ frequency = engine_init(config).frequency
    /\ volume = engine_init(config).volume
    /\ wave_type = engine_init(config).wave_type
    /\ current_phase = engine_init(config).current_phase
    /\ left_hand_pos = None
    /\ right_hand_pos = None
    /\ processing_thread = None
    /\ pc = [t \in Threads |-> "none"]
    /\ mapped = None
    /\ last_params = None
    /\ current_frame = None
    /\ out = None
    /\ gen = None
    /\ prev = None
    /\ last_switch = None
    /\ status = None
    /\ frame = None
    /\ tracker_config = config
    /\ engine_config = config
    /\ cb = None
    /\ upd = None
    /\ written = None
    /\ caller = None
    /\ reply = None

\* self.hand_tracker.process_frame(frame), the frame showing these hands
TrackFrame(hands) ==
    /\ hand_tracker = "open"
    /\ frame' = <<hands>>
    /\ \E pos \in {process_frame(tracker_config, hands)} :
           /\ left_hand_pos' = pos[1]
           /\ right_hand_pos' = pos[2]
    /\ UNCHANGED <<config, ui_callbacks, conf_vars, race_vars, caller, reply,
                   mainpc, res_vars, engine_vars, thread_vars, api_vars,
                   buffer_vars>>

NextTrack == \E hands \in TrackDetections : TrackFrame(hands)

SpecTrack == InitTrack /\ [][NextTrack]_vars

-----------------------------------------------------------------------------
(* SpecConfig: update_config on a theremin that is set up and may run.     *)

\* It starts where SpecTrack does: HandTracker and AudioEngine were
\* constructed with the theremin's configuration.

\* the configurations update_config is given: those a theremin is
\* constructed with, and the defaults for a smaller frame
ConfigUpdates ==
    Configs \cup
    {ThereminConfig(320, 240, 44100, 256, <<R(200), R(1000)>>,
                    <<R(0), R(1)>>, "sine", "volume", "frequency")}

\* CorporalTheremin.update_config(new_config)
UpdateConfig(new_config) ==
    /\ audio_engine = "built"
    /\ config' = new_config
    /\ UNCHANGED <<ui_callbacks, ext_vars, mainpc, res_vars, engine_vars,
                   tracker_vars, thread_vars, api_vars, buffer_vars>>

NextConfig ==
    \/ \E new_config \in ConfigUpdates : UpdateConfig(new_config)
    \/ Start
    \/ \E t \in Threads : FairThreadStep(t)

SpecConfig == InitTrack /\ [][NextConfig]_vars

-----------------------------------------------------------------------------
(* SpecRace: the audio callback and update_parameters, statement by        *)
(* statement.  PortAudio invokes the callback on its own thread while the  *)
(* processing thread calls update_parameters; no lock is taken, so the     *)
(* interpreter may switch threads between any two statements.              *)
(*                                                                         *)
(* cb is the latest audio_callback invocation, <<>> before the first:      *)
(*   pc      "samples" before generate_wave computes the wave from         *)
(*           self.frequency, "wrap" before it advances and wraps the       *)
(*           phase with self.frequency, "scale" before it multiplies by    *)
(*           self.volume, "done" once the callback has returned            *)
(*   kind, phase, f   the waveform kind, phase and frequency the wave was  *)
(*           computed from, f_from the update_parameters call that wrote f *)
(*   fw      the frequency the phase was wrapped with                      *)
(*   v, v_from   the volume the wave was scaled by and the call that wrote *)
(*           it                                                            *)
(*   raced   an update_parameters call wrote, or was between its two       *)
(*           assignments, while the invocation ran                         *)
(* upd is the update_parameters call between its two assignments, and      *)
(* written names the call (0: the constructor) that wrote each parameter.  *)

MaxUpdates == 3

RaceVolumes == {Rat(1, 2), R(1)}

InitRace ==
    /\ config \in AudioConfigs
    /\ ui_callbacks = FALSE
    /\ mainpc = "idle"
    /\ setup_error = ""
    /\ camera = "open"
    /\ hand_tracker = "open"
    /\ audio_engine = "built"
    /\ audio = "open"
    /\ stream = "active"
    /\ is_running = TRUE
    /\ is_playing = TRUE
    /\ frequency = engine_init(config).frequency
    /\ volume = engine_init(config).volume
    /\ wave_type = engine_init(config).wave_type
    /\ current_phase = engine_init(config).current_phase
    /\ left_hand_pos = None
    /\ right_hand_pos = None
    /\ processing_thread = None
    /\ pc = [t \in Threads |-> "none"]
    /\ mapped = None
    /\ last_params = None
    /\ current_frame = None
    /\ out = None
    /\ gen = None
    /\ prev = None
    /\ last_switch = None
    /\ status = None
    /\ frame = None
    /\ tracker_config = config
    /\ engine_config = config
    /\ cb = None
    /\ upd = None
    /\ written = [frequency |-> 0, volume |-> 0, calls |-> 0]
    /\ caller = None
    /\ reply = None

CallbackInProgress == cb # None /\ cb[1].pc # "done"

\* the invocation in progress, if any, has overlapped an update
overlap(c) ==
    IF c # None /\ c[1].pc # "done" THEN <<[c[1] EXCEPT !.raced = TRUE]>>
                                    ELSE c

\* a variant that waits, as under a lock, until no callback is running
UpdateWriteFrequencyLocked(f, v) ==
    /\ ~CallbackInProgress
    /\ upd = None
    /\ written.calls < MaxUpdates
    /\ frequency' = f
    /\ upd' = <<[id |-> written.calls + 1, volume |-> v]>>
    /\ written' = [written EXCEPT !.frequency = written.calls + 1,
                                  !.calls = written.calls + 1]
    /\ UNCHANGED <<config, ui_callbacks, frame, conf_vars, caller,
                   reply, mainpc,
                   res_vars, volume, wave_type, current_phase, tracker_vars,
                   thread_vars, api_vars, buffer_vars, cb>>

\* update_parameters: self.frequency = frequency
UpdateWriteFrequency(f, v) ==
    /\ upd = None
    /\ written.calls < MaxUpdates
    /\ frequency' = f
    /\ upd' = <<[id |-> written.calls + 1, volume |-> v]>>
    /\ written' = [written EXCEPT !.frequency = written.calls + 1,
                                  !.calls = written.calls + 1]
    /\ cb' = overlap(cb)
    /\ UNCHANGED <<config, ui_callbacks, frame, conf_vars, caller,
                   reply, mainpc,
                   res_vars, volume, wave_type, current_phase, tracker_vars,
                   thread_vars, api_vars, buffer_vars>>

\* update_parameters: self.volume = volume
UpdateWriteVolume ==
    /\ upd # None
    /\ volume' = upd[1].volume
    /\ upd' = None
    /\ written' = [written EXCEPT !.volume = upd[1].id]
    /\ cb' = overlap(cb)
    /\ UNCHANGED <<config, ui_callbacks, frame, conf_vars, caller,
                   reply, mainpc,
                   res_vars, frequency, wave_type, current_phase,
                   tracker_vars, thread_vars, api_vars, buffer_vars>>

\* audio_callback is invoked: the test of is_playing and volume, and the
\* silence branch as a whole
CallbackEnter ==
    /\ stream = "active"
    /\ ~CallbackInProgress
    /\ IF callback_silent
       THEN /\ out' = zeros(engine_config.frames_per_buffer)
            /\ status' = "paContinue"
            /\ UNCHANGED cb
       ELSE /\ cb' = <<[pc |-> "samples", raced |-> upd # None]>>
            /\ UNCHANGED <<out, status>>
    /\ UNCHANGED <<config, ui_callbacks, frame, conf_vars, upd, written,
                   caller, reply, mainpc, res_vars, engine_vars, tracker_vars,
                   thread_vars, api_vars, gen, prev, last_switch>>

\* generate_wave: t_global and the wave, from self.current_phase,
\* self.wave_type and self.frequency
CallbackSamples ==
    /\ cb # None
    /\ cb[1].pc = "samples"
    /\ cb' = <<[pc |-> "wrap", raced |-> cb[1].raced, kind |-> wave_type,
                phase |-> current_phase, f |-> frequency,
                f_from |-> written.frequency]>>
    /\ UNCHANGED <<config, ui_callbacks, frame, conf_vars, upd, written,
                   caller, reply, mainpc, res_vars, engine_vars, tracker_vars,
                   thread_vars, api_vars, buffer_vars>>

\* generate_wave: the phase is advanced, then wrapped with self.frequency
CallbackWrap ==
    /\ cb # None
    /\ cb[1].pc = "wrap"
    /\ current_phase' = advance_phase(engine_config, frequency, current_phase,
                                      engine_config.frames_per_buffer)
    /\ cb' = <<[pc |-> "scale", raced |-> cb[1].raced, kind |-> cb[1].kind,
                phase |-> cb[1].phase, f |-> cb[1].f,
                f_from |-> cb[1].f_from, fw |-> frequency]>>
    /\ UNCHANGED <<config, ui_callbacks, frame, conf_vars, upd, written,
                   caller,
                   reply, mainpc, res_vars, frequency, volume, wave_type,
                   tracker_vars, thread_vars, api_vars, buffer_vars>>

\* generate_wave: wave * self.volume, the clip, and the callback's return
CallbackReturn ==
    /\ cb # None
    /\ cb[1].pc = "scale"
    /\ out' = generate_wave(engine_config, cb[1].f, volume, cb[1].kind,
                            cb[1].phase,
                            engine_config.frames_per_buffer).samples
    /\ status' = "paContinue"
    /\ cb' = <<[pc |-> "done", raced |-> cb[1].raced, kind |-> cb[1].kind,
                phase |-> cb[1].phase, f |-> cb[1].f,
                f_from |-> cb[1].f_from, fw |-> cb[1].fw, v |-> volume,
                v_from |-> written.volume]>>
    /\ UNCHANGED <<config, ui_callbacks, frame, conf_vars, upd, written,
                   caller, reply, mainpc, res_vars, engine_vars, tracker_vars,
                   thread_vars, api_vars, gen, prev, last_switch>>

NextRace ==
    \/ \E f \in FrequencyInputs, v \in RaceVolumes : UpdateWriteFrequency(f, v)
    \/ UpdateWriteVolume
    \/ CallbackEnter
    \/ CallbackSamples
    \/ CallbackWrap
    \/ CallbackReturn

SpecRace == InitRace /\ [][NextRace]_vars

-----------------------------------------------------------------------------
(* SpecCalls: start() and stop() called by the request threads of the      *)
(* threaded HTTP server, statement by statement, on a theremin that was    *)
(* set up.  caller[c] is where request thread c is:                        *)
(*   "idle"          in no call                                            *)
(*   "start_set"     in start(), is_running tested false, not yet set      *)
(*   "start_engine"  in start(), before self.audio_engine.start()          *)
(*   "start_thread"  in start(), before the thread is created and started  *)
(*   "stop_engine"   in stop(), before self.audio_engine.stop()            *)
(*   "stop_join"     in stop(), at the join                                *)

MaxCallers == 2

Callers == 1..MaxCallers

InitCalls ==
    /\ config = DefaultConfig
    /\ ui_callbacks = TRUE
    /\ mainpc = "idle"
    /\ setup_error = ""
    /\ camera = "open"
    /\ hand_tracker = "open"
    /\ audio_engine = "built"
    /\ audio = "open"
    /\ stream = "active"
    /\ is_running = FALSE
    /\ is_playing = FALSE
    /\ frequency = engine_init(config).frequency
    /\ volume = engine_init(config).volume
    /\ wave_type = engine_init(config).wave_type
    /\ current_phase = engine_init(config).current_phase
    /\ left_hand_pos = None
    /\ right_hand_pos = None
    /\ processing_thread = None
    /\ pc = [t \in Threads |-> "none"]
    /\ mapped = None
    /\ last_params = None
    /\ current_frame = None
    /\ out = None
    /\ gen = None
    /\ prev = None
    /\ last_switch = None
    /\ status = None
    /\ frame = None
    /\ tracker_config = config
    /\ engine_config = config
    /\ cb = None
    /\ upd = None
    /\ written = None
    /\ caller = [c \in Callers |-> "idle"]
    /\ reply = None

calls_frame == <<config, ui_callbacks, frame, conf_vars, race_vars, reply, mainpc,
                 engine_vars, tracker_vars, api_vars, buffer_vars>>

\* start(): if not self.is_running; a call that finds the flag set returns
StartTest(c) ==
    /\ caller[c] = "idle"
    /\ caller' = [caller EXCEPT ![c] = IF is_running THEN "idle"
                                                     ELSE "start_set"]
    /\ UNCHANGED <<calls_frame, res_vars, thread_vars>>

\* start(): self.is_running = True
StartSet(c) ==
    /\ caller[c] = "start_set"
    /\ SetRes([Res EXCEPT !.is_running = TRUE])
    /\ caller' = [caller EXCEPT ![c] = "start_engine"]
    /\ UNCHANGED <<calls_frame, thread_vars>>

\* start(): self.audio_engine.start()
StartEngine(c) ==
    /\ caller[c] = "start_engine"
    /\ SetRes(engine_start(Res))
    /\ caller' = [caller EXCEPT ![c] = "start_thread"]
    /\ UNCHANGED <<calls_frame, thread_vars>>

\* start(): the processing thread is created and started
StartThread(c) ==
    /\ caller[c] = "start_thread"
    /\ \E t \in Threads : pc[t] \in Ended
    /\ processing_thread' = <<NewThread>>
    /\ pc' = [pc EXCEPT ![NewThread] = "check"]
    /\ caller' = [caller EXCEPT ![c] = "idle"]
    /\ UNCHANGED <<calls_frame, res_vars>>

\* stop(): self.is_running = False
StopClear(c) ==
    /\ caller[c] = "idle"
    /\ SetRes([Res EXCEPT !.is_running = FALSE])
    /\ caller' = [caller EXCEPT ![c] = "stop_engine"]
    /\ UNCHANGED <<calls_frame, thread_vars>>

\* stop(): self.audio_engine.stop()
StopEngine(c) ==
    /\ caller[c] = "stop_engine"
    /\ SetRes(engine_stop(Res))
    /\ caller' = [caller EXCEPT ![c] = "stop_join"]
    /\ UNCHANGED <<calls_frame, thread_vars>>

\* stop(): the join returns
StopJoin(c, timed_out) ==
    /\ caller[c] = "stop_join"
    /\ join_returns(timed_out)
    /\ caller' = [caller EXCEPT ![c] = "idle"]
    /\ UNCHANGED <<calls_frame, res_vars, thread_vars>>

NextCalls ==
    \/ \E c \in Callers : StartTest(c)
    \/ \E c \in Callers : StartSet(c)
    \/ \E c \in Callers : StartEngine(c)
    \/ \E c \in Callers : StartThread(c)
    \/ \E c \in Callers : StopClear(c)
    \/ \E c \in Callers : StopEngine(c)
    \/ \E c \in Callers, timed_out \in BOOLEAN : StopJoin(c, timed_out)
    \/ \E t \in Threads : FairThreadStep(t)

SpecCalls == InitCalls /\ [][NextCalls]_vars

-----------------------------------------------------------------------------
(* The /api/wave_type route (SpecApi).  ThereminAPI constructs the         *)
(* theremin when the server module is loaded and keeps None if the         *)
(* constructor raised; the route is served from then on.  reply holds the  *)
(* kind the latest request asked for and the JSON the route returned.      *)

\* the kinds the route accepts
ROUTE_WAVE_TYPES == {"sine", "square", "sawtooth", "triangle"}

\* the JSON bodies of a request: without a wave_type key, or with one
WaveTypeBodies == {None} \cup {<<k>> : k \in WaveTypeInputs}

\* data.get('wave_type', 'sine')
requested_wave_type(body) == IF body = None THEN "sine" ELSE body[1]

\* ThereminAPI.theremin is set: the constructor of CorporalTheremin returned
theremin_constructed == mainpc \notin {"new", "failed"}

\* ThereminAPI.update_wave_type: its effect, and success as its result
api_update_wave_type(k, success) ==
    IF theremin_constructed
    THEN /\ set_wave_type(k)
         /\ switch_request(k)
         /\ success = TRUE
    ELSE /\ UNCHANGED <<wave_type, last_switch>>
         /\ success = FALSE

\* POST /api/wave_type
ApiWaveType(body) ==
    /\ mainpc # "new"
    /\ \E k \in {requested_wave_type(body)} :
           IF k \notin ROUTE_WAVE_TYPES
           THEN /\ reply' = <<[request |-> k, success |-> FALSE,
                               message |-> "Tipo de onda no valido"]>>
                /\ UNCHANGED <<wave_type, last_switch>>
           ELSE \E success \in BOOLEAN :
                    /\ api_update_wave_type(k, success)
                    /\ reply' = <<[request |-> k, success |-> success,
                                   message |-> "Onda cambiada a"]>>
    /\ UNCHANGED <<config, ui_callbacks, frame, conf_vars, race_vars, caller,
                   mainpc, res_vars, frequency, volume, current_phase,
                   tracker_vars, thread_vars, api_vars, out, gen, prev,
                   status>>

\* CorporalTheremin.set_wave_type called on the constructed theremin
ThereminSetWaveType(k) ==
    /\ theremin_constructed
    /\ SetWaveType(k)

NextApi ==
    \/ \E camera_ok \in BOOLEAN, fail_at \in SetupFailures :
           Setup(camera_ok, fail_at)
    \/ \E body \in WaveTypeBodies : ApiWaveType(body)
    \/ \E k \in WaveTypeInputs : ThereminSetWaveType(k)

SpecApi == Init /\ [][NextApi]_vars

-----------------------------------------------------------------------------
(* Claims about the mapping (SpecMap).                                     *)

InRange(x, range) == RLe(range[1], x) /\ RLe(x, range[2])

\* C1: for every configuration with freq_min <= freq_max and
\* vol_min <= vol_max, every assignment of the hands, every combination of
\* detected and absent hands and every y in 0..frame_height,
\* map_hand_to_parameters returns a frequency within frequency_range and a
\* volume within volume_range.
C1_MappedWithinRange ==
    mapped # None =>
        /\ InRange(mapped[1], config.frequency_range)
        /\ InRange(mapped[2], config.volume_range)

\* value lies on the line from `from` at y = 0 to `to` at y = frame_height
OnLine(cfg, value, from, to, hand) ==
    RMul(value, R(cfg.frame_height))
        = RAdd(RMul(from, R(cfg.frame_height)),
               RMul(RSub(to, from), R(hand[2])))

\* the hand whose value map_hand_to_parameters returns for a control: the
\* right hand if it is detected and assigned to it, else the left hand if
\* it is detected and assigned to it, else neither
RightSets(control) ==
    right_hand_pos # None /\ config.right_hand_controls = control

LeftSets(control) ==
    /\ left_hand_pos # None
    /\ config.left_hand_controls = control
    /\ ~RightSets(control)

\* C13: for a detected hand with 0 <= y <= frame_height the mapping is
\* linear in y: a hand assigned to volume yields vol_max at y = 0 and
\* vol_min at y = frame_height, a hand assigned to frequency yields
\* freq_min at y = 0 and freq_max at y = frame_height.
C13_LinearMapping ==
    mapped # None =>
        /\ RightSets("volume") =>
               OnLine(config, mapped[2], config.volume_range[2],
                      config.volume_range[1], right_hand_pos)
        /\ LeftSets("volume") =>
               OnLine(config, mapped[2], config.volume_range[2],
                      config.volume_range[1], left_hand_pos)
        /\ RightSets("frequency") =>
               OnLine(config, mapped[1], config.frequency_range[1],
                      config.frequency_range[2], right_hand_pos)
        /\ LeftSets("frequency") =>
               OnLine(config, mapped[1], config.frequency_range[1],
                      config.frequency_range[2], left_hand_pos)
        /\ (RightSets("volume") /\ right_hand_pos[2] = 0) =>
               mapped[2] = config.volume_range[2]
        /\ (RightSets("volume")
              /\ right_hand_pos[2] = config.frame_height) =>
               mapped[2] = config.volume_range[1]
        /\ (RightSets("frequency") /\ right_hand_pos[2] = 0) =>
               mapped[1] = config.frequency_range[1]
        /\ (RightSets("frequency")
              /\ right_hand_pos[2] = config.frame_height) =>
               mapped[1] = config.frequency_range[2]

\* the left hand, a third of the way down, sets a volume strictly between
\* the ends of the range; the right hand, at the bottom, sets freq_max
C13_Witness ==
    /\ mapped # None
    /\ LeftSets("volume")
    /\ left_hand_pos[2] = 1
    /\ config.frame_height = 3
    /\ config.volume_range = <<Rat(1, 5), Rat(4, 5)>>
    /\ mapped[2] = Rat(3, 5)
    /\ RightSets("frequency")
    /\ right_hand_pos[2] = 3
    /\ mapped[1] = R(1000)

\* C14: for each of the four assignments of the hands, the parameter a
\* detected hand is assigned to equals the linear mapping of that hand's y,
\* whether and wherever the other hand is detected.
C14_HandDeterminesItsParameter ==
    mapped # None =>
        /\ (left_hand_pos # None /\ config.left_hand_controls = "volume") =>
               OnLine(config, mapped[2], config.volume_range[2],
                      config.volume_range[1], left_hand_pos)
        /\ (left_hand_pos # None
              /\ config.left_hand_controls = "frequency") =>
               OnLine(config, mapped[1], config.frequency_range[1],
                      config.frequency_range[2], left_hand_pos)
        /\ (right_hand_pos # None
              /\ config.right_hand_controls = "volume") =>
               OnLine(config, mapped[2], config.volume_range[2],
                      config.volume_range[1], right_hand_pos)
        /\ (right_hand_pos # None
              /\ config.right_hand_controls = "frequency") =>
               OnLine(config, mapped[1], config.frequency_range[1],
                      config.frequency_range[2], right_hand_pos)

\* the detected hands, and the detected hands assigned to a control
DetectedControls ==
    {config.left_hand_controls : h \in {left_hand_pos} \ {None}}
        \cup {config.right_hand_controls : h \in {right_hand_pos} \ {None}}

OnlyOneHand == (left_hand_pos = None) # (right_hand_pos = None)

\* C23: the mapped volume is non-zero only if a hand assigned to volume is
\* detected in the frame: when the only detected hand is assigned to
\* frequency the volume is 0, and when the only detected hand is assigned
\* to volume the frequency is the fixed 440 Hz.
C23_DefaultsWithoutAssignedHand ==
    mapped # None =>
        /\ mapped[2] # R(0) => "volume" \in DetectedControls
        /\ (OnlyOneHand /\ DetectedControls = {"frequency"}) =>
               mapped[2] = R(0)
        /\ (OnlyOneHand /\ DetectedControls = {"volume"}) =>
               mapped[1] = R(440)

\* only the right hand is detected and it is assigned to frequency, in a
\* range that starts above 440 Hz and with a volume range that starts
\* above 0: the frequency is the hand's and the volume is 0
C23_Witness ==
    /\ mapped # None
    /\ left_hand_pos = None
    /\ right_hand_pos # None
    /\ config.right_hand_controls = "frequency"
    /\ config.frequency_range = <<R(500), R(1000)>>
    /\ config.volume_range = <<Rat(1, 5), Rat(4, 5)>>
    /\ right_hand_pos[2] = config.frame_height
    /\ mapped = <<R(1000), R(0)>>

\* C24: when both hands are detected and both are assigned to the same
\* parameter, the result holds the right hand's mapped value for that
\* parameter and the default for the other one, 440 Hz for frequency and 0
\* for volume.
C24_RightHandOverrides ==
    (mapped # None /\ left_hand_pos # None /\ right_hand_pos # None) =>
        /\ (config.left_hand_controls = "volume"
              /\ config.right_hand_controls = "volume") =>
               /\ OnLine(config, mapped[2], config.volume_range[2],
                         config.volume_range[1], right_hand_pos)
               /\ mapped[1] = R(440)
        /\ (config.left_hand_controls = "frequency"
              /\ config.right_hand_controls = "frequency") =>
               /\ OnLine(config, mapped[1], config.frequency_range[1],
                         config.frequency_range[2], right_hand_pos)
               /\ mapped[2] = R(0)

\* both hands are assigned to frequency, the left one at the top and the
\* right one at the bottom: the frequency is the right hand's freq_max
C24_Witness ==
    /\ mapped # None
    /\ config.left_hand_controls = "frequency"
    /\ config.right_hand_controls = "frequency"
    /\ config.frequency_range = <<R(200), R(1000)>>
    /\ left_hand_pos # None
    /\ right_hand_pos # None
    /\ left_hand_pos[2] = 0
    /\ right_hand_pos[2] = config.frame_height
    /\ mapped = <<R(1000), R(0)>>

-----------------------------------------------------------------------------
(* Claims about the life cycle and the processing loop (Spec, SpecFair).   *)

\* C2: whenever both hands are absent in the frame an iteration of the
\* processing loop processed, map_hand_to_parameters returned volume 0 and
\* the audio engine's volume is 0 after the iteration.
C2_SilenceWhenNoHands ==
    [][\A t \in Threads :
          (/\ pc[t] = "process"
           /\ pc'[t] = "check"
           /\ left_hand_pos' = None
           /\ right_hand_pos' = None)
          => (mapped'[2] = R(0) /\ volume' = R(0))]_vars

\* an iteration has processed a frame without hands, under a volume range
\* that does not hold 0, and told the UI so
C2_Witness ==
    /\ mapped # None
    /\ left_hand_pos = None
    /\ right_hand_pos = None
    /\ volume = R(0)
    /\ RLt(R(0), config.volume_range[1])
    /\ last_params # None
    /\ ~last_params[1].left_hand_detected
    /\ ~last_params[1].right_hand_detected

\* C6: from construction onward the engine's frequency lies within the
\* configured frequency_range and its volume within the configured
\* volume_range.
C6_ParametersWithinRange ==
    audio_engine = "built" =>
        /\ InRange(frequency, config.frequency_range)
        /\ InRange(volume, config.volume_range)

\* C7: a setup that fails while initializing a component propagates the
\* initialization error with every resource acquired so far released.
C7_FailedSetupReleases ==
    mainpc = "failed" =>
        /\ setup_error = "InitError"
        /\ camera # "open"
        /\ hand_tracker # "open"
        /\ audio # "open"

\* C8: once the run flag is cleared, every processing thread ends unless
\* the flag is set again.
C8_LoopEndsAfterStop ==
    \A t \in Threads :
        (~is_running /\ pc[t] \in Alive)
            ~> (is_running \/ pc[t] \notin Alive)

\* a thread has left the loop through its loop condition while the theremin
\* is stopped and not cleaned up
C8_Witness ==
    /\ ~is_running
    /\ mainpc \in {"stop_join", "idle"}
    /\ \E t \in Threads : pc[t] = "exited"

\* C9: cleanup(), called after a successful setup, returns with the run
\* flag false, the engine not playing, the stream closed, the audio handle
\* terminated, the hand tracker closed and the camera released (a capture
\* that never opened holds no device and is left as it is).
C9_CleanupReleasesEverything ==
    mainpc = "finished" =>
        /\ ~is_running
        /\ ~is_playing
        /\ stream = "closed"
        /\ audio = "terminated"
        /\ hand_tracker = "closed"
        /\ camera \in {"released", "unopened"}

\* cleanup() has returned, its join having timed out: the camera is
\* released while a processing thread is still in its loop
C9_Witness ==
    /\ mainpc = "finished"
    /\ camera = "released"
    /\ \E t \in Threads : pc[t] \in Alive

\* C10: an iteration whose camera read fails leaves the hand positions,
\* the engine's frequency and volume and the run flag unchanged, invokes
\* neither UI callback, and the loop goes on with its loop condition.
C10_FailedReadIsSkipped ==
    [][\A t \in Threads :
          (pc[t] = "read" /\ pc'[t] \notin {"read", "process"})
          => /\ pc'[t] = "continue"
             /\ UNCHANGED <<left_hand_pos, right_hand_pos, frequency, volume,
                            is_running, last_params, current_frame>>]_vars

\* a read of an open camera has failed after a frame with a hand was
\* processed and reported: the positions and parameters are still there
C10_Witness ==
    /\ \E t \in Threads : pc[t] = "continue"
    /\ camera = "open"
    /\ is_running
    /\ left_hand_pos # None
    /\ last_params # None
    /\ RLt(R(0), volume)

\* the processing threads that are executing processing_loop
Running == {t \in Threads : pc[t] \in Alive}

\* C16: at most one processing thread executes processing_loop at any time,
\* for every interleaving of start() and stop() calls.
C16_AtMostOneProcessingThread == Cardinality(Running) <= 1

\* C17: whenever the run flag is true and no start() call is in progress,
\* a processing thread is alive.
C17_RunningHasThread == is_running => Running # {}

-----------------------------------------------------------------------------
(* Claims about the hand tracker (SpecTrack).                              *)

Detected(label) ==
    \E i \in DOMAIN frame[1] : frame[1][i].label = label

\* C11: after every process_frame call the stored position of a hand is
\* non-empty if and only if a hand with that label was detected in that
\* frame, whatever the positions were before the call.
C11_PositionsFollowDetection ==
    frame # None =>
        /\ left_hand_pos # None <=> Detected("Left")
        /\ right_hand_pos # None <=> Detected("Right")

\* a frame with only a right hand has been processed: the left position is
\* empty and the right one is the wrist in pixels
C11_Witness ==
    /\ frame # None
    /\ Len(frame[1]) = 1
    /\ Detected("Right")
    /\ left_hand_pos = None
    /\ right_hand_pos = wrist_position(tracker_config, frame[1][1])

-----------------------------------------------------------------------------
(* Claims about the configuration (SpecConfig).                            *)

\* C12: the theremin, its hand tracker and its audio engine always refer
\* to the same configuration: no operation of CorporalTheremin changes the
\* configuration in use after construction.
C12_ConfigurationShared ==
    audio_engine = "built" =>
        /\ tracker_config = config
        /\ engine_config = config

-----------------------------------------------------------------------------
(* Claims about the audio engine (SpecAudio).                              *)

\* the largest step between neighbouring samples of a continuous waveform
\* of frequency f at volume vol: slope * f * vol / sample_rate, the slope
\* per cycle being 4 for the triangle and at most 32/5 for the sine (2 * pi,
\* and the slope of the approximation sine_wave, are below it)
step_bound(cfg, kind, f, vol) ==
    RDiv(RMul(RMul(IF kind = "triangle" THEN R(4) ELSE Rat(32, 5), f), vol),
         R(cfg.sample_rate))

ContinuousKinds == {"sine", "triangle"}

\* C3: when generate_wave produces two consecutive buffers, the phase in
\* cycles at the first sample of the second continues from the phase the
\* first reached at its end, whatever update_parameters did in between; so
\* for the sine and the triangle, at one volume, the jump across the
\* boundary is at most the largest step between neighbouring samples at
\* those frequencies.
C3_PhaseContinuity ==
    (gen # None /\ prev # None) =>
        /\ gen[1].start = prev[1].end
        /\ (/\ gen[1].kind = prev[1].kind
            /\ gen[1].kind \in ContinuousKinds
            /\ gen[1].volume = prev[1].volume)
           => RLe(RAbs(RSub(gen[1].first, prev[1].last)),
                  step_bound(config, gen[1].kind,
                             RMax(gen[1].frequency, prev[1].frequency),
                             gen[1].volume))

\* C3 restricted to buffers generated at one frequency (holds)
C3_SameFrequencyContinuity ==
    (gen # None /\ prev # None /\ gen[1].frequency = prev[1].frequency) =>
        gen[1].start = prev[1].end

\* C4: every sample of every buffer audio_callback returns has magnitude at
\* most 0.9.
C4_OutputWithinSafetyMargin ==
    out # None => \A i \in DOMAIN out : RLe(RAbs(out[i]), CLIP_LIMIT)

\* a generated buffer with a sample that the clip cut to 0.9 in magnitude,
\* and a silent buffer
C4_Witness ==
    /\ out # None
    /\ gen # None
    /\ out[1] = gen[1].first
    /\ RLt(CLIP_LIMIT, gen[1].volume)
    /\ \E i \in DOMAIN out : RAbs(out[i]) = CLIP_LIMIT

\* C5: every buffer generate_wave produces after a set_wave_type(k) call
\* with a valid k returned, until the next such call, is generated with
\* waveform kind k.
C5_SwitchTakesEffectOnNextBuffer ==
    (gen # None /\ gen[1].requested # None) =>
        gen[1].kind = gen[1].requested[1]

\* two consecutive buffers with a switch from sine to triangle between them
C5_Witness ==
    /\ gen # None
    /\ prev # None
    /\ prev[1].kind = "sine"
    /\ gen[1].requested = <<"triangle">>
    /\ gen[1].kind = "triangle"

\* C19: when the engine is not playing or its volume is below 0.01,
\* audio_callback returns exactly frame_count zero samples with the
\* continue status and leaves the phase accumulator, the frequency, the
\* volume and the waveform kind unchanged.
C19_SilentCallbackHasNoEffect ==
    [][((~is_playing \/ RLt(volume, Rat(1, 100)))
          /\ (out' # out \/ status' # status))
       => /\ Len(out') = engine_config.frames_per_buffer
          /\ \A i \in DOMAIN out' : out'[i] = R(0)
          /\ status' = "paContinue"
          /\ UNCHANGED <<current_phase, frequency, volume, wave_type>>]_vars

\* a playing engine whose volume is below the threshold has returned
\* silence after an audible buffer: the phase that buffer left is kept
C19_Witness ==
    /\ is_playing
    /\ volume = Rat(1, 200)
    /\ status = "paContinue"
    /\ out # None
    /\ \A i \in DOMAIN out : out[i] = R(0)
    /\ gen # None
    /\ current_phase # R(0)

\* C20: right after a generate_wave call with frequency > 0 the phase
\* accumulator satisfies 0 <= current_phase < 1 / frequency for the
\* frequency of that call, and is the phase before the call advanced by
\* num_samples / sample_rate and wrapped modulo that period.
C20_PhaseWithinPeriod ==
    gen # None =>
        /\ RLe(R(0), current_phase)
        /\ RLt(RMul(current_phase, gen[1].frequency), R(1))
        /\ RMul(current_phase, gen[1].frequency) = gen[1].end

\* the phase has wrapped: a buffer at 880 Hz that started half a cycle in
\* has left the accumulator at 0
C20_Witness ==
    /\ gen # None
    /\ gen[1].frequency = R(880)
    /\ gen[1].start = Rat(1, 2)
    /\ current_phase = R(0)

-----------------------------------------------------------------------------
(* Claims about the engine's threads (SpecRace).                           *)

\* the latest invocation computed its wave with one frequency and wrapped
\* the phase with another, or used a frequency and a volume that different
\* update_parameters calls wrote
Mixed ==
    /\ cb # None
    /\ cb[1].pc = "done"
    /\ (cb[1].f # cb[1].fw \/ cb[1].f_from # cb[1].v_from)

\* C15: frequency and volume are shared between update_parameters and the
\* audio callback with no lock: while a callback invocation runs, an
\* update_parameters call can write; an invocation that uses values of two
\* different calls is reachable, and only such an overlap produces one.
C15_UpdatesRaceWithCallback ==
    /\ (CallbackInProgress /\ upd = None /\ written.calls < MaxUpdates)
          => ENABLED (\E f \in FrequencyInputs, v \in RaceVolumes :
                          UpdateWriteFrequency(f, v))
    /\ (CallbackInProgress /\ upd # None) => ENABLED UpdateWriteVolume
    /\ Mixed => cb[1].raced

\* one invocation has computed its samples at one frequency, wrapped the
\* phase with another, and scaled by a volume that a later
\* update_parameters call wrote than the frequency of its samples
C15_Witness ==
    /\ Mixed
    /\ cb[1].f # cb[1].fw
    /\ cb[1].f_from < cb[1].v_from
    /\ cb[1].raced

-----------------------------------------------------------------------------
(* Claims about the waveform kind (SpecApi).                               *)

\* C22: the engine's waveform kind, valid initially, is one of sine,
\* square, sawtooth and triangle in every state: a set_wave_type call with
\* any other value leaves it unchanged, and a /api/wave_type request with
\* any other value leaves it unchanged and replies success = false.
C22_WaveTypeStaysValid ==
    [][/\ theremin_constructed'
            => wave_type' \in {"sine", "square", "sawtooth", "triangle"}
       /\ (reply' # reply
             /\ reply'[1].request
                  \notin {"sine", "square", "sawtooth", "triangle"})
            => /\ reply'[1].success = FALSE
               /\ wave_type' = wave_type]_vars

\* after a switch to triangle, a request for the kind "noise" was answered
\* success = false and the kind is still triangle
C22_Witness ==
    /\ theremin_constructed
    /\ reply # None
    /\ reply[1].request = "noise"
    /\ reply[1].success = FALSE
    /\ wave_type = "triangle"
    /\ last_switch = <<"triangle">>

-----------------------------------------------------------------------------
(* Claims about concurrent calls (SpecCalls).                              *)

\* C18: once all start() and stop() calls have returned, the run flag and
\* the engine's playing flag agree.
C18_RunningAgreesWithPlaying ==
    (\A c \in Callers : caller[c] = "idle") => is_running = is_playing

=============================================================================
